---- MODULE Spec2Model ----
(***************************************************************************)
(* A model of the gcatcirc library (rust_gcatcirc_lib): the CircCode data  *)
(* model (code/mod.rs), the CodeGraph unique-decodability search           *)
(* (graph_code/mod.rs) and the CircGraph split graph (graph_circ/mod.rs,   *)
(* graph_circ/elements.rs).                                                *)
(*                                                                         *)
(* Symbols are the integers of Sigma, ordered as chars are; a word is a    *)
(* sequence of symbols.  Positions and indices computed by the code are    *)
(* 0-based as in the source; sequences are 1-based, so e[i][j] of the      *)
(* source is e[i + 1][j + 1] here.                                         *)
(***************************************************************************)
EXTENDS Integers, Sequences, FiniteSets, TLC

VARIABLES input, self, ret

vars == <<input, self, ret>>

----------------------------------------------------------------------------
(* Bounds of the model *)

\* the largest number of words handed to new_from_vec
MaxWords == 3

\* the largest length of a word handed to new_from_vec
MaxWordLen == 3

\* the symbols the input words are written in
Sigma == {1, 2}

\* the amounts shift is called with: both signs, amounts below and above the
\* word lengths, and multiples of every word length
ShiftAmounts == {-4, -3, -1, 1, 2, 3}

\* the longest sequence handed to new_from_seq
MaxSeqLen == 4

\* the largest tuple length handed to new_from_seq
MaxTupleLength == 3

\* the longest label handed to Vertex::new on its own
MaxLabelLen == 33

----------------------------------------------------------------------------
(* Generic helpers on sequences *)

Range(s) == {s[i] : i \in 1..Len(s)}

Contains(s, x) == \E i \in 1..Len(s) : s[i] = x

Last(s) == s[Len(s)]

\* a let binding of the source: the value v, computed once, handed to the code after it
With(v, F(_)) == F(v)

\* F of the value of v, v evaluated once before F is applied
Value(v, F(_)) == CHOOSE y \in {F(x) : x \in {v}} : TRUE

\* a[k..] of the source (0-based k): the elements after the first k
Skip(s, k) == SubSeq(s, k + 1, Len(s))

\* a[..k] of the source (0-based k): the first k elements
Take(s, k) == SubSeq(s, 1, k)

RECURSIVE Concat(_)
\* Vec<String>::join(""): the concatenation of the words of a list
Concat(ws) == IF ws = <<>> THEN <<>> ELSE Head(ws) \o Concat(Tail(ws))

RECURSIVE InsertIdx(_, _, _)
\* the index i put into the ordering s after the last index whose key is <= keys[i]
InsertIdx(s, i, keys) ==
    IF s = <<>> THEN <<i>>
    ELSE IF keys[Last(s)] <= keys[i] THEN Append(s, i)
    ELSE Append(InsertIdx(Take(s, Len(s) - 1), i, keys), Last(s))

RECURSIVE SortIdx(_, _)
\* the indices 1..n in ascending order of their keys, equal keys in index order
SortIdx(keys, n) ==
    IF n = 0 THEN <<>> ELSE InsertIdx(SortIdx(keys, n - 1), n, keys)

\* the stable ascending sort of slice::sort_by: s ordered by the keys keys[i] of s[i]
SortBy(s, keys) ==
    LET order == SortIdx(keys, Len(s)) IN [i \in 1..Len(s) |-> s[order[i]]]

\* slice::sort on integers
Sort(s) == SortBy(s, s)

RECURSIVE Dedup(_)
\* Vec::dedup: removes consecutive repeated elements only
Dedup(s) ==
    IF Len(s) <= 1 THEN s
    ELSE LET d == Dedup(Take(s, Len(s) - 1))
         IN IF Last(d) = Last(s) THEN d ELSE Append(d, Last(s))

----------------------------------------------------------------------------
(* code/mod.rs: CircCode *)

\* the words new_from_vec is handed, the empty word included
Words == UNION {[1..n -> Sigma] : n \in 0..MaxWordLen}

\* the lists of words new_from_vec is handed: the empty list, lists with
\* empty words and lists with repeated words included
InputLists == UNION {[1..n -> Words] : n \in 0..MaxWords}

\* the sequences new_from_seq is handed, the empty sequence included
Sequences == UNION {[1..n -> Sigma] : n \in 0..MaxSeqLen}

\* the tuple lengths new_from_seq is handed, 0 included
TupleLengths == 0..MaxTupleLength

\* the alphabets Vertex::new is handed
Alphabets == {<<1>>, <<1, 2>>, <<1, 2, 3>>}

\* the labels Vertex::new is handed: the words, and the first letter repeated up to
\* MaxLabelLen times
Labels == Words \cup {[i \in 1..n |-> 1] : n \in 0..MaxLabelLen}

\* w.len(): the words are written in one-byte symbols
WordLen(w) == Len(w)

\* the place of a CircCode that was not built
NoCode == [code |-> <<>>, tuple_length |-> <<>>, alphabet |-> <<>>]

\* Result<CircCode, CircCodeErr>: Ok(cc) and Err(e); a call that aborts
\* returns nothing, written Panic
Ok(cc) == [err |-> "Ok", cc |-> cc]

Err(e) == [err |-> e, cc |-> NoCode]

Panic == [err |-> "panic", cc |-> NoCode]

\* CircCode::default: the code {A}
Default == [code |-> <<<<1>>>>, tuple_length |-> <<1>>, alphabet |-> <<1>>]

\* the lengths new_from_vec collects: every word's length, sorted, deduplicated
new_from_vec_tuple_length(code) ==
    Dedup(Sort([i \in 1..Len(code) |-> WordLen(code[i])]))

\* new_from_vec without the test of line 83: a list with an empty word is built
\* into a Code
new_from_vec_keeps_empty_words(code) ==
    IF code = <<>> THEN Err("EmptyCode")
    ELSE Ok([code |-> Dedup(code),
             tuple_length |-> new_from_vec_tuple_length(code),
             alphabet |-> Dedup(Sort(Concat(code)))])

\* CircCode::new_from_vec
new_from_vec(code) ==
    IF code = <<>> THEN Err("EmptyCode")
    ELSE IF Contains(new_from_vec_tuple_length(code), 0) THEN Err("EmptyWord")
    ELSE Ok([code |-> Dedup(code),
             tuple_length |-> new_from_vec_tuple_length(code),
             alphabet |-> Dedup(Sort(Concat(code)))])

\* the loop of new_from_seq: for i in (tuple_length..=v.len()).step_by(tuple_length)
RECURSIVE new_from_seq_loop(_, _, _, _)
new_from_seq_loop(v, tuple_length, i, new_code) ==
    IF i > Len(v) THEN new_code
    ELSE new_from_seq_loop(v, tuple_length, i + tuple_length,
                           Append(new_code, SubSeq(v, i - tuple_length + 1, i)))

\* new_from_seq without the test of line 132: a tuple length above the length of
\* the sequence cuts no tuple and the Code is built without words
new_from_seq_without_length_test(sequence, tuple_length) ==
    IF sequence = <<>> THEN Err("EmptyCode")
    ELSE IF tuple_length = 0 THEN Panic
    ELSE Ok([code |-> Dedup(new_from_seq_loop(sequence, tuple_length, tuple_length, <<>>)),
             tuple_length |-> <<tuple_length>>,
             alphabet |-> Dedup(Sort(sequence))])

\* CircCode::new_from_seq: step_by(0) aborts the call
new_from_seq(sequence, tuple_length) ==
    IF sequence = <<>> THEN Err("EmptyCode")
    ELSE IF tuple_length > Len(sequence) THEN Err("EmptyCode")
    ELSE IF tuple_length = 0 THEN Panic
    ELSE Ok([code |-> Dedup(new_from_seq_loop(sequence, tuple_length, tuple_length, <<>>)),
             tuple_length |-> <<tuple_length>>,
             alphabet |-> Dedup(Sort(sequence))])

\* impl From<Vec<String>> for CircCode
from_vec(code) ==
    IF new_from_vec(code).err = "Ok" THEN new_from_vec(code) ELSE Ok(Default)

\* impl From<(String, usize)> for CircCode: an abort of new_from_seq aborts the conversion
from_seq(sequence, tuple_length) ==
    IF new_from_seq(sequence, tuple_length).err = "Ok" THEN new_from_seq(sequence, tuple_length)
    ELSE IF new_from_seq(sequence, tuple_length).err = "panic" THEN Panic
    ELSE Ok(Default)

\* the truncated remainder of Rust's % on i32
TruncRem(a, b) == IF a >= 0 THEN a % b ELSE -((-a) % b)

\* the closure of shift with the sign of the amount lost: a negative amount
\* rotates the way the positive one does
shift_word_ignores_sign(w, sh) ==
    Skip(w, (IF sh < 0 THEN -sh ELSE sh) % Len(w)) \o Take(w, (IF sh < 0 THEN -sh ELSE sh) % Len(w))

\* the closure of shift with prefix and suffix exchanged: w[..k] followed by
\* w[k..], the word as it was
shift_word_keeps_prefix_first(w, sh) ==
    Take(w, (Len(w) + TruncRem(sh, Len(w))) % Len(w)) \o Skip(w, (Len(w) + TruncRem(sh, Len(w))) % Len(w))

\* the closure of CircCode::shift: one word rotated
shift_word(w, sh) ==
    LET k == (Len(w) + TruncRem(sh, Len(w))) % Len(w)
    IN Skip(w, k) \o Take(w, k)

\* CircCode::shift
shift(x, sh) ==
    [x EXCEPT !.code = [i \in 1..Len(x.code) |-> shift_word(x.code[i], sh)]]

\* the order of String: a < b, symbol by symbol, a proper prefix first
RECURSIVE StrLess(_, _)
StrLess(a, b) ==
    IF b = <<>> THEN FALSE
    ELSE IF a = <<>> THEN TRUE
    ELSE IF Head(a) # Head(b) THEN Head(a) < Head(b)
    ELSE StrLess(Tail(a), Tail(b))

RECURSIVE InsertStr(_, _)
InsertStr(sorted, w) ==
    IF sorted = <<>> THEN <<w>>
    ELSE IF StrLess(w, Head(sorted)) THEN <<w>> \o sorted
    ELSE <<Head(sorted)>> \o InsertStr(Tail(sorted), w)

\* code.sort() on a list of words
RECURSIVE SortStr(_)
SortStr(s) ==
    IF s = <<>> THEN <<>> ELSE InsertStr(SortStr(Take(s, Len(s) - 1)), Last(s))

\* impl PartialEq for CircCode: the two word lists sorted and compared
eq(a, b) == SortStr(a.code) = SortStr(b.code)

----------------------------------------------------------------------------
(* graph_code/mod.rs: CodeGraph *)

ROOT == 0

\* CodeGraph::new: the root-only sequence, then every word prefixed by ROOT
CodeGraph_new(x) ==
    <<<<ROOT>>>> \o [i \in 1..Len(x.code) |-> <<ROOT>> \o x.code[i]]

\* self.e[p.0][p.1]
At(e, p) == e[p[1] + 1][p[2] + 1]

\* self.e[p.0].len() - 1 == p.1
AtEnd(e, p) == Len(e[p[1] + 1]) - 1 = p[2]

\* p0 == (0, 0) || self.e[p0.0].len() - 1 == p0.1
AtBoundary(e, p) == p = <<0, 0>> \/ AtEnd(e, p)

\* the order of (usize, usize) tuples
TupleLeq(p, q) == p[1] < q[1] \/ (p[1] = q[1] /\ p[2] <= q[2])

\* pos.sort() on an array of two position tuples
SortPos(pos) == IF TupleLeq(pos[1], pos[2]) THEN pos ELSE <<pos[2], pos[1]>>

\* what a call that returns adds to the observation of the recursion, history being the
\* history of the branch the call ends: depth is the largest number of position pairs a
\* history has held, twice is whether a history has held two pairs of the same two
\* positions, in either order, guard is whether a call has returned because
\* history.contains(&pos)
Observe(obs, history, guard) ==
    [depth |-> IF Len(history) > obs.depth THEN Len(history) ELSE obs.depth,
     twice |-> \/ obs.twice
               \/ Cardinality({{history[k][1], history[k][2]} : k \in 1..Len(history)})
                     < Len(history),
     guard |-> obs.guard \/ guard]

\* the observation before the first call of reg_is_code
NoObs == [depth |-> 0, twice |-> FALSE, guard |-> FALSE]

RECURSIVE reg_is_code(_, _, _, _, _, _, _)
RECURSIVE reg_is_code_branch(_, _, _, _, _, _, _, _, _)

\* the loop "for cod_idx in 1..self.e.len()" of reg_is_code, from cod_idx on
reg_is_code_branch(e, cod_idx, p1, history, find_all_paths, all_paths, current_path, is_code, obs) ==
    IF cod_idx >= Len(e) THEN [ret |-> is_code, all_paths |-> all_paths, obs |-> obs]
    ELSE With(reg_is_code(e, <<<<cod_idx, 0>>, p1>>, history, find_all_paths,
                          all_paths, current_path, obs),
              LAMBDA r :
                 IF ~r.ret
                 THEN IF ~find_all_paths THEN [r EXCEPT !.ret = FALSE]
                      ELSE reg_is_code_branch(e, cod_idx + 1, p1, history, find_all_paths,
                                              r.all_paths, current_path, FALSE, r.obs)
                 ELSE reg_is_code_branch(e, cod_idx + 1, p1, history, find_all_paths,
                                         r.all_paths, current_path, is_code, r.obs))

\* reg_is_code with a guard that lets a pair of the history pass once more: the call
\* returns only when the history holds the pair twice
reg_is_code_second_visit(e, pos, history, find_all_paths, all_paths, current_path, obs) ==
    LET p0 == pos[1]
        p1 == pos[2]
        sorted == SortPos(pos)
        seen == Len(SelectSeq(history, LAMBDA x : x = sorted)) >= 2
        h == Append(history, sorted)
        b0 == AtBoundary(e, p0)
        b1 == AtBoundary(e, p1)
        q0 == <<p0[1], p0[2] + 1>>
        q1 == <<p1[1], p1[2] + 1>>
        same == At(e, q0) = At(e, q1)
        ends == AtEnd(e, q0) /\ AtEnd(e, q1)
        cp == Append(current_path, At(e, q0))
    IN IF seen
       THEN [ret |-> TRUE, all_paths |-> all_paths, obs |-> Observe(obs, history, TRUE)]
       ELSE CASE b0 ->
                    reg_is_code_branch(e, 1, p1, h, find_all_paths, all_paths,
                                       current_path, TRUE, obs)
              [] ~b0 /\ b1 ->
                    reg_is_code_branch(e, 1, p0, h, find_all_paths, all_paths,
                                       current_path, TRUE, obs)
              [] ~b0 /\ ~b1 /\ ~same ->
                    [ret |-> TRUE, all_paths |-> all_paths, obs |-> Observe(obs, h, FALSE)]
              [] ~b0 /\ ~b1 /\ same /\ ends ->
                    [ret |-> FALSE,
                     all_paths |-> IF find_all_paths THEN Append(all_paths, cp)
                                   ELSE all_paths,
                     obs |-> Observe(obs, h, FALSE)]
              [] ~b0 /\ ~b1 /\ same /\ ~ends ->
                    reg_is_code(e, <<q0, q1>>, h, find_all_paths, all_paths, cp, obs)

\* CodeGraph::reg_is_code; all_paths is the shared vector, returned with the result;
\* obs is the observation of the recursion so far, returned with the result.  The cases
\* are the returns of the source in their order: seen is history.contains(&pos), h the
\* history after history.push(pos), b0 and b1 the two turns of the loop over (p0, p1)
\* and (p1, p0), q0 and q1 the positions after "p0.1 = p0.1 + 1; p1.1 = p1.1 + 1"
reg_is_code(e, pos, history, find_all_paths, all_paths, current_path, obs) ==
    LET p0 == pos[1]
        p1 == pos[2]
        sorted == SortPos(pos)
        seen == Contains(history, sorted)
        h == Append(history, sorted)
        b0 == AtBoundary(e, p0)
        b1 == AtBoundary(e, p1)
        q0 == <<p0[1], p0[2] + 1>>
        q1 == <<p1[1], p1[2] + 1>>
        same == At(e, q0) = At(e, q1)
        ends == AtEnd(e, q0) /\ AtEnd(e, q1)
        cp == Append(current_path, At(e, q0))
    IN IF seen
       THEN [ret |-> TRUE, all_paths |-> all_paths, obs |-> Observe(obs, history, TRUE)]
       ELSE CASE b0 ->
                    reg_is_code_branch(e, 1, p1, h, find_all_paths, all_paths,
                                       current_path, TRUE, obs)
              [] ~b0 /\ b1 ->
                    reg_is_code_branch(e, 1, p0, h, find_all_paths, all_paths,
                                       current_path, TRUE, obs)
              [] ~b0 /\ ~b1 /\ ~same ->
                    [ret |-> TRUE, all_paths |-> all_paths, obs |-> Observe(obs, h, FALSE)]
              [] ~b0 /\ ~b1 /\ same /\ ends ->
                    [ret |-> FALSE,
                     all_paths |-> IF find_all_paths THEN Append(all_paths, cp)
                                   ELSE all_paths,
                     obs |-> Observe(obs, h, FALSE)]
              [] ~b0 /\ ~b1 /\ same /\ ~ends ->
                    reg_is_code(e, <<q0, q1>>, h, find_all_paths, all_paths, cp, obs)

RECURSIVE start_reg_is_code_loop_keeps_verdict(_, _, _, _, _, _, _)
\* start_reg_is_code with the assignment "is_code = false" left out: when every path is
\* collected, an ambiguous pair no longer changes the verdict
start_reg_is_code_loop_keeps_verdict(e, cod_idx_0, cod_idx_1, find_all_paths, all_paths, is_code, obs) ==
    IF cod_idx_0 >= Len(e) - 1 THEN [ret |-> is_code, all_paths |-> all_paths, obs |-> obs]
    ELSE IF cod_idx_1 >= Len(e)
    THEN start_reg_is_code_loop_keeps_verdict(e, cod_idx_0 + 1, cod_idx_0 + 2,
                                              find_all_paths, all_paths, is_code, obs)
    ELSE With(reg_is_code(e, <<<<cod_idx_0, 0>>, <<cod_idx_1, 0>>>>, <<>>,
                          find_all_paths, all_paths, <<>>, obs),
              LAMBDA r :
                 IF ~r.ret /\ ~find_all_paths
                 THEN [r EXCEPT !.ret = FALSE]
                 ELSE start_reg_is_code_loop_keeps_verdict(e, cod_idx_0, cod_idx_1 + 1,
                                                           find_all_paths, r.all_paths,
                                                           is_code, r.obs))

RECURSIVE start_reg_is_code_loop(_, _, _, _, _, _, _)
\* the two nested loops of start_reg_is_code, from the pair (cod_idx_0, cod_idx_1) on
start_reg_is_code_loop(e, cod_idx_0, cod_idx_1, find_all_paths, all_paths, is_code, obs) ==
    IF cod_idx_0 >= Len(e) - 1 THEN [ret |-> is_code, all_paths |-> all_paths, obs |-> obs]
    ELSE IF cod_idx_1 >= Len(e)
    THEN start_reg_is_code_loop(e, cod_idx_0 + 1, cod_idx_0 + 2, find_all_paths,
                                all_paths, is_code, obs)
    ELSE With(reg_is_code(e, <<<<cod_idx_0, 0>>, <<cod_idx_1, 0>>>>, <<>>,
                          find_all_paths, all_paths, <<>>, obs),
              LAMBDA r :
                 IF ~r.ret
                 THEN IF ~find_all_paths THEN [r EXCEPT !.ret = FALSE]
                      ELSE start_reg_is_code_loop(e, cod_idx_0, cod_idx_1 + 1,
                                                  find_all_paths, r.all_paths, FALSE, r.obs)
                 ELSE start_reg_is_code_loop(e, cod_idx_0, cod_idx_1 + 1, find_all_paths,
                                             r.all_paths, is_code, r.obs))

\* CodeGraph::start_reg_is_code
start_reg_is_code(e, find_all_paths) ==
    start_reg_is_code_loop(e, 1, 2, find_all_paths, <<>>, TRUE, NoObs)

\* CodeGraph::is_code
CodeGraph_is_code(e) == start_reg_is_code(e, FALSE).ret

\* CodeGraph::all_ambiguous_sequences: (verdict, sequences)
CodeGraph_all_ambiguous_sequences(e) ==
    With(start_reg_is_code(e, TRUE), LAMBDA r : <<r.ret, r.all_paths>>)

\* CircCode::is_code
is_code(x) == CodeGraph_is_code(CodeGraph_new(x))

\* CircCode::all_ambiguous_sequences
all_ambiguous_sequences(x) == CodeGraph_all_ambiguous_sequences(CodeGraph_new(x))

----------------------------------------------------------------------------
(* graph_circ/elements.rs: Vertex and Edge *)

\* alphabet.iter().position(|&c| c == l): the first 0-based position of l, -1 if none
Position(alphabet, l) ==
    IF Contains(alphabet, l)
    THEN (CHOOSE i \in 1..Len(alphabet) :
             alphabet[i] = l /\ \A j \in 1..(i - 1) : alphabet[j] # l) - 1
    ELSE -1

\* i32::MAX and i32::MIN
I32_MAX == 2147483647

I32_MIN == -I32_MAX - 1

\* a + b leaves the range of i32
AddOverflows(a, b) == IF b >= 0 THEN a > I32_MAX - b ELSE a < I32_MIN - b

\* a + b in i32: the sum modulo 2^32, as a build without overflow checks computes it
wrapping_add(a, b) ==
    IF ~AddOverflows(a, b) THEN a + b
    ELSE IF b >= 0 THEN (a - I32_MAX - 1) + (b - I32_MAX - 1)
    ELSE (a + I32_MAX + 1) + (b + I32_MAX + 1)

RECURSIVE wrapping_mul_loop(_, _, _, _)
\* a * m in i32 for a factor m >= 0: a is added m times; overflow is whether one
\* of the sums left the range, which is whether the product leaves it
wrapping_mul_loop(a, m, acc, overflow) ==
    IF m = 0 THEN [val |-> acc, overflow |-> overflow]
    ELSE Value([acc |-> wrapping_add(acc, a), overflow |-> overflow \/ AddOverflows(acc, a)],
               LAMBDA st : wrapping_mul_loop(a, m - 1, st.acc, st.overflow))

\* a * m in i32
wrapping_mul(a, m) == wrapping_mul_loop(a, m, 0, FALSE)

\* the body of the loop of calculate_idx for the symbol l; st holds pos and index, ok
\* is FALSE after "return Err(NotInAlphabet)", overflow is whether
\* "index += pos_val as i32 * pos" or "pos *= alphabet.len() as i32 + 1" has left the
\* range of i32 so far
calculate_idx_body(l, alphabet, st) ==
    IF ~st.ok THEN st
    ELSE IF Position(alphabet, l) < 0 THEN [st EXCEPT !.ok = FALSE]
    ELSE Value(wrapping_mul(st.pos, Position(alphabet, l) + 1),
               LAMBDA term :
                  Value(wrapping_mul(st.pos, Len(alphabet) + 1),
                        LAMBDA next :
                           [ok |-> TRUE,
                            pos |-> next.val,
                            index |-> wrapping_add(st.index, term.val),
                            overflow |-> \/ st.overflow
                                         \/ term.overflow
                                         \/ AddOverflows(st.index, term.val)
                                         \/ next.overflow]))

RECURSIVE calculate_idx_loop(_, _, _, _, _)
\* the loop "for l in label.chars()" of calculate_idx over the symbols lo..hi (1-based)
\* of the label, in their order: the first half of the symbols, then the second
calculate_idx_loop(label, alphabet, lo, hi, st) ==
    IF lo > hi THEN st
    ELSE IF lo = hi THEN calculate_idx_body(label[lo], alphabet, st)
    ELSE Value(calculate_idx_loop(label, alphabet, lo, (lo + hi) \div 2, st),
               LAMBDA half :
                  calculate_idx_loop(label, alphabet, (lo + hi) \div 2 + 1, hi, half))

\* calculate_idx: ok = FALSE is Err(NotInAlphabet); index is the value a build without
\* overflow checks returns; overflow is whether the arithmetic left the range of i32
\* before the return, where a build with overflow checks panics.  The labels of a graph
\* of the model are at most MaxWordLen symbols over at most Cardinality(Sigma) letters,
\* and there overflow is FALSE.
calculate_idx(label, alphabet) ==
    Value(calculate_idx_loop(label, alphabet, 1, Len(label),
                             [ok |-> TRUE, pos |-> 1, index |-> 0, overflow |-> FALSE]),
          LAMBDA st : [ok |-> st.ok, index |-> IF st.ok THEN st.index ELSE 0,
                       overflow |-> st.overflow])

\* Vertex::new
Vertex_new(label, alphabet) ==
    With(calculate_idx(label, alphabet),
         LAMBDA r : [ok |-> r.ok, overflow |-> r.overflow,
                     v |-> [label |-> label, index |-> r.index]])

\* PartialEq for Vertex
VertexEq(a, b) == a.index = b.index

\* Edge::new
Edge_new(v1, v2) == [from |-> v1, to |-> v2, label |-> v1.label \o v2.label]

\* PartialEq for Edge
EdgeEq(a, b) == a.to.index = b.to.index /\ a.from.index = b.from.index

\* Vec<Rc<Edge>>::contains
ContainsEdge(edges, e) == \E i \in 1..Len(edges) : EdgeEq(edges[i], e)

\* PartialEq for Vec<Rc<Edge>>
PathEq(p, q) == Len(p) = Len(q) /\ \A i \in 1..Len(p) : EdgeEq(p[i], q[i])

\* Vec<Vec<Rc<Edge>>>::contains
ContainsPath(paths, p) == \E i \in 1..Len(paths) : PathEq(paths[i], p)

----------------------------------------------------------------------------
(* graph_circ/mod.rs: CircGraph *)

\* CircGraph::push_vertex: the graph after the call and the vertex returned
push_vertex(g, label) ==
    With(Vertex_new(label, g.alphabet),
         LAMBDA r :
            IF ~r.ok THEN [ok |-> FALSE, g |-> g, v |-> r.v]
            ELSE IF \E i \in 1..Len(g.v) : VertexEq(g.v[i], r.v)
            THEN [ok |-> TRUE, g |-> g,
                  v |-> g.v[CHOOSE i \in 1..Len(g.v) :
                               /\ VertexEq(g.v[i], r.v)
                               /\ \A j \in 1..(i - 1) : ~VertexEq(g.v[j], r.v)]]
            ELSE [ok |-> TRUE, g |-> [g EXCEPT !.v = Append(@, r.v)], v |-> r.v])

\* CircGraph::push_edge
push_edge(g, v1, v2) == [g EXCEPT !.e = Append(@, Edge_new(v1, v2))]

RECURSIVE push_tuple_loop(_, _, _)
\* the loop "for s in 1..w.len()" of push_tuple, from the split point s on
push_tuple_loop(g, w, s) ==
    IF s >= Len(w) THEN [ok |-> TRUE, g |-> g]
    ELSE With(push_vertex(g, Take(w, s)),
              LAMBDA r1 :
                 IF ~r1.ok THEN [ok |-> FALSE, g |-> g]
                 ELSE With(push_vertex(r1.g, Skip(w, s)),
                           LAMBDA r2 :
                              IF ~r2.ok THEN [ok |-> FALSE, g |-> r1.g]
                              ELSE push_tuple_loop(push_edge(r2.g, r1.v, r2.v), w, s + 1)))

\* CircGraph::push_tuple
push_tuple(g, w) == push_tuple_loop(g, w, 1)

RECURSIVE CircGraph_new_loop(_, _, _)
\* the loop "for w in &x.code" of CircGraph::new, from the i-th word on
CircGraph_new_loop(g, code, i) ==
    IF i > Len(code) THEN [ok |-> TRUE, g |-> g]
    ELSE With(push_tuple(g, code[i]),
              LAMBDA r : IF ~r.ok THEN [ok |-> FALSE, g |-> r.g]
                         ELSE CircGraph_new_loop(r.g, code, i + 1))

\* CircGraph::new: ok = FALSE is Err(EmptyCode) or Err(VertexErr)
CircGraph_new(x) ==
    IF x.code = <<>> THEN [ok |-> FALSE, err |-> "EmptyCode", g |-> <<>>]
    ELSE With(CircGraph_new_loop([alphabet |-> x.alphabet, v |-> <<>>, e |-> <<>>],
                                 x.code, 1),
              LAMBDA r :
                 IF ~r.ok THEN [ok |-> FALSE, err |-> "VertexErr", g |-> <<>>]
                 ELSE [ok |-> TRUE, err |-> "",
                       g |-> [alphabet |-> r.g.alphabet,
                              v |-> SortBy(r.g.v, [i \in 1..Len(r.g.v) |-> r.g.v[i].index]),
                              e |-> SortBy(r.g.e,
                                           [i \in 1..Len(r.g.e) |-> r.g.e[i].from.index])]])

\* CircGraph::get_all_outgoing_edges_of_vertices
get_all_outgoing_edges_of_vertices(g, vertices) ==
    SelectSeq(g.e, LAMBDA edge : \E i \in 1..Len(vertices) : VertexEq(vertices[i], edge.from))

\* CircGraph::get_path_start_edges
get_path_start_edges(g) ==
    get_all_outgoing_edges_of_vertices(g,
        SelectSeq(g.v, LAMBDA vertex : ~\E i \in 1..Len(g.e) : VertexEq(g.e[i].to, vertex)))

\* current_path.iter().position(|edge| edge.from.eq(&current_pos.to)), 0-based, -1 if none
EndPos(current_path, current_pos) ==
    IF \E i \in 1..Len(current_path) : VertexEq(current_path[i].from, current_pos.to)
    THEN (CHOOSE i \in 1..Len(current_path) :
             /\ VertexEq(current_path[i].from, current_pos.to)
             /\ \A j \in 1..(i - 1) : ~VertexEq(current_path[j].from, current_pos.to)) - 1
    ELSE -1

\* the enumerate/map closure of reg_is_cyclic: the 0-based position of the first edge
\* of c whose origin index is the least (the indices are non-negative, so that
\* "as u32" leaves them as they are)
MinIdx(c) ==
    (CHOOSE i \in 1..Len(c) :
        /\ \A j \in 1..Len(c) : c[i].from.index <= c[j].from.index
        /\ \A j \in 1..(i - 1) : c[j].from.index > c[i].from.index) - 1

\* slice::rotate_left
rotate_left(s, k) == Skip(s, k) \o Take(s, k)

\* the cycle recorded without c_path.rotate_left(min_idx): it begins at the edge
\* the search entered it by
CyclePath_unrotated(current_path, current_pos, end_pos) ==
    IF VertexEq(current_pos.from, current_pos.to) THEN <<current_pos>>
    ELSE Skip(current_path, end_pos)

\* the cycle reg_is_cyclic records when it detects one
CyclePath(current_path, current_pos, end_pos) ==
    IF VertexEq(current_pos.from, current_pos.to) THEN <<current_pos>>
    ELSE LET c == Skip(current_path, end_pos) IN rotate_left(c, MinIdx(c))

RECURSIVE reg_is_cyclic(_, _, _, _)
RECURSIVE reg_is_cyclic_loop(_, _, _, _, _, _)

\* the loop "for edge in targets" of reg_is_cyclic, from the i-th target on;
\* st holds the shared cells visited_edges, is_acyclic and all_paths
reg_is_cyclic_loop(g, current_path, targets, i, st, find_all_paths) ==
    IF i > Len(targets) THEN [st EXCEPT !.ret = st.is_acyclic]
    ELSE With(reg_is_cyclic(g, Append(current_path, targets[i]),
                            IF ContainsEdge(st.visited_edges, targets[i]) THEN st
                            ELSE [st EXCEPT !.visited_edges = Append(@, targets[i])],
                            find_all_paths),
              LAMBDA r :
                 IF r.ret /\ ~find_all_paths THEN [r EXCEPT !.ret = TRUE]
                 ELSE reg_is_cyclic_loop(g, current_path, targets, i + 1, r,
                                         find_all_paths))

\* CircGraph::reg_is_cyclic on a non-empty current_path
reg_is_cyclic(g, current_path, st, find_all_paths) ==
    IF ~find_all_paths /\ st.is_acyclic THEN [st EXCEPT !.ret = TRUE]
    ELSE LET current_pos == Last(current_path)
             end_pos == EndPos(current_path, current_pos)
         IN IF end_pos >= 0 \/ VertexEq(current_pos.from, current_pos.to)
            THEN LET c_path == CyclePath(current_path, current_pos, end_pos)
                 IN [ret |-> TRUE,
                     visited_edges |-> st.visited_edges,
                     is_acyclic |-> TRUE,
                     all_paths |-> IF find_all_paths /\ ~ContainsPath(st.all_paths, c_path)
                                   THEN Append(st.all_paths, c_path)
                                   ELSE st.all_paths]
            ELSE reg_is_cyclic_loop(g, current_path,
                                    get_all_outgoing_edges_of_vertices(g, <<current_pos.to>>),
                                    1, st, find_all_paths)

RECURSIVE start_reg_is_cyclic_loop(_, _, _, _, _)
\* the loop "for vertex in start_edges" of start_reg_is_cyclic, from the i-th edge on
start_reg_is_cyclic_loop(g, start_edges, i, st, find_all_paths) ==
    IF i > Len(start_edges) THEN [st EXCEPT !.ret = st.is_acyclic]
    ELSE IF ContainsEdge(st.visited_edges, start_edges[i])
    THEN start_reg_is_cyclic_loop(g, start_edges, i + 1, st, find_all_paths)
    ELSE With(reg_is_cyclic(g, <<start_edges[i]>>,
                            [st EXCEPT !.visited_edges = Append(@, start_edges[i])],
                            find_all_paths),
              LAMBDA r :
                 IF r.ret
                 THEN IF ~find_all_paths THEN [r EXCEPT !.ret = TRUE]
                      ELSE start_reg_is_cyclic_loop(g, start_edges, i + 1,
                                                    [r EXCEPT !.is_acyclic = TRUE],
                                                    find_all_paths)
                 ELSE start_reg_is_cyclic_loop(g, start_edges, i + 1, r, find_all_paths))

\* start_reg_is_cyclic without the second round over self.e: the search starts only at
\* the edges that leave a vertex without incoming edge
start_reg_is_cyclic_from_sources(g, find_all_paths) ==
    start_reg_is_cyclic_loop(g, get_path_start_edges(g), 1,
                             [ret |-> FALSE, visited_edges |-> <<>>,
                              is_acyclic |-> FALSE, all_paths |-> <<>>],
                             find_all_paths)

\* CircGraph::start_reg_is_cyclic: the result and the cycles collected
start_reg_is_cyclic(g, find_all_paths) ==
    start_reg_is_cyclic_loop(g, get_path_start_edges(g) \o g.e, 1,
                             [ret |-> FALSE, visited_edges |-> <<>>,
                              is_acyclic |-> FALSE, all_paths |-> <<>>],
                             find_all_paths)

\* CircGraph::is_cyclic
is_cyclic(g) == start_reg_is_cyclic(g, FALSE).ret

\* the lengths of the paths of a list
Lengths(paths) == [i \in 1..Len(paths) |-> Len(paths[i])]

\* all_cycles with the search run in its deciding mode (find_all_paths = false), which
\* stops at the first cycle and records none
all_cycles_decide_only(g) ==
    With(start_reg_is_cyclic(g, FALSE),
         LAMBDA r : <<r.ret, SortBy(r.all_paths, Lengths(r.all_paths))>>)

\* all_cycles without all_cycles.sort_by: the cycles in the order the search found them
all_cycles_unsorted(g) ==
    With(start_reg_is_cyclic(g, TRUE), LAMBDA r : <<r.ret, r.all_paths>>)

\* CircGraph::all_cycles: (is cyclic, the cycles in ascending order of length)
all_cycles(g) ==
    With(start_reg_is_cyclic(g, TRUE),
         LAMBDA r : <<r.ret, SortBy(r.all_paths, Lengths(r.all_paths))>>)

RECURSIVE rec_find_all_longest_paths(_, _, _)
RECURSIVE rec_find_all_longest_paths_loop(_, _, _, _, _)

\* the loop "for t in targets" of rec_find_all_longest_paths, from the i-th target on
rec_find_all_longest_paths_loop(g, current_path, targets, i, all_paths) ==
    IF i > Len(targets) THEN all_paths
    ELSE rec_find_all_longest_paths_loop(g, current_path, targets, i + 1,
             rec_find_all_longest_paths(g, Append(current_path, targets[i]), all_paths))

\* CircGraph::rec_find_all_longest_paths: the shared vector all_paths after the call
rec_find_all_longest_paths(g, current_path, all_paths) ==
    IF current_path = <<>> THEN all_paths
    ELSE Append(rec_find_all_longest_paths_loop(g, current_path,
                    get_all_outgoing_edges_of_vertices(g, <<Last(current_path).to>>),
                    1, all_paths),
                current_path)

RECURSIVE all_longest_paths_loop(_, _, _, _)
\* the loop "for e in start_edges" of all_longest_paths, from the i-th edge on
all_longest_paths_loop(g, start_edges, i, all_paths) ==
    IF i > Len(start_edges) THEN all_paths
    ELSE all_longest_paths_loop(g, start_edges, i + 1,
             rec_find_all_longest_paths(g, <<start_edges[i]>>, all_paths))

\* CircGraph::all_longest_paths: kind is "None", "Some" (with the paths) or "panic",
\* the unwrap of all_paths.last() on an empty vector
all_longest_paths(g) ==
    IF is_cyclic(g) THEN [kind |-> "None", paths |-> <<>>]
    ELSE With(all_longest_paths_loop(g, get_path_start_edges(g), 1, <<>>),
              LAMBDA found :
                 With(SortBy(found, Lengths(found)),
                      LAMBDA all_paths :
                         IF all_paths = <<>> THEN [kind |-> "panic", paths |-> <<>>]
                         ELSE [kind |-> "Some",
                               paths |-> SelectSeq(all_paths,
                                            LAMBDA x : Len(x) = Len(Last(all_paths)))]))

\* the body of the loops of subgraph_from_list_of_edges and component: the clones
\* of the target and of the origin pushed to g.v, then the edge pushed
push_clones(g, e) == push_edge([g EXCEPT !.v = @ \o <<e.to, e.from>>], e.from, e.to)

RECURSIVE subgraph_from_list_of_edges_loop(_, _, _, _)
\* the loop "for e in &edges" of subgraph_from_list_of_edges, from the i-th edge on
subgraph_from_list_of_edges_loop(parent, edges, i, g) ==
    IF i > Len(edges) THEN [err |-> "Ok", g |-> g]
    ELSE IF ContainsEdge(parent.e, edges[i])
    THEN subgraph_from_list_of_edges_loop(parent, edges, i + 1, push_clones(g, edges[i]))
    ELSE [err |-> "NoSubErr", g |-> <<>>]

\* CircGraph::subgraph_from_list_of_edges
subgraph_from_list_of_edges(parent, edges) ==
    subgraph_from_list_of_edges_loop(parent, edges, 1,
                                     [alphabet |-> parent.alphabet, v |-> <<>>, e |-> <<>>])

RECURSIVE component_loop_origin_only(_, _, _, _)
\* the loop of component with the test of the origin label alone
component_loop_origin_only(parent, i, k, g) ==
    IF k > Len(parent.e) THEN g
    ELSE IF Len(parent.e[k].from.label) = i
    THEN component_loop_origin_only(parent, i, k + 1, push_clones(g, parent.e[k]))
    ELSE component_loop_origin_only(parent, i, k + 1, g)

RECURSIVE component_loop(_, _, _, _)
\* the loop "for e in &self.e" of component, from the k-th edge on
component_loop(parent, i, k, g) ==
    IF k > Len(parent.e) THEN g
    ELSE IF Len(parent.e[k].to.label) = i \/ Len(parent.e[k].from.label) = i
    THEN component_loop(parent, i, k + 1, push_clones(g, parent.e[k]))
    ELSE component_loop(parent, i, k + 1, g)

\* CircGraph::component
component(parent, i) ==
    With(component_loop(parent, i, 1,
                        [alphabet |-> parent.alphabet, v |-> <<>>, e |-> <<>>]),
         LAMBDA g : IF g.e = <<>> THEN [err |-> "EmptyCode", g |-> <<>>]
                    ELSE [err |-> "Ok", g |-> g])

\* the graph a caller unwraps from CircGraph::new, which returns Ok for every Code
\* built by a constructor
GraphOf(x) == CircGraph_new(x).g

----------------------------------------------------------------------------
(* code/mod.rs: the properties of a CircCode *)

\* u32::MAX, the sentinel of get_exact_k_circular.  TLC's integers end at 2^31 - 1, which
\* stands for it: every other result is below the number of edges of a cycle.
U32_MAX == 2147483647

\* CircCode::is_circular
is_circular(x) ==
    With(CircGraph_new(x),
         LAMBDA graph : IF ~graph.ok THEN FALSE ELSE ~is_cyclic(graph.g))

\* CircCode::is_comma_free: panic = TRUE when the call aborts instead of returning val
is_comma_free(x) ==
    With(CircGraph_new(x),
         LAMBDA graph :
            IF ~graph.ok THEN [panic |-> FALSE, val |-> FALSE]
            ELSE With(all_longest_paths(graph.g),
                      LAMBDA longest_paths :
                         IF longest_paths.kind = "panic" THEN [panic |-> TRUE, val |-> FALSE]
                         ELSE IF longest_paths.kind = "Some"
                         THEN [panic |-> FALSE, val |-> Len(longest_paths.paths[1]) <= 2]
                         ELSE [panic |-> FALSE, val |-> FALSE]))

\* CircCode::is_strong_comma_free: panic = TRUE when the call aborts
is_strong_comma_free(x) ==
    With(CircGraph_new(x),
         LAMBDA graph :
            IF ~graph.ok THEN [panic |-> FALSE, val |-> FALSE]
            ELSE With(all_longest_paths(graph.g),
                      LAMBDA longest_paths :
                         IF longest_paths.kind = "panic" THEN [panic |-> TRUE, val |-> FALSE]
                         ELSE IF longest_paths.kind = "Some"
                         THEN [panic |-> FALSE, val |-> Len(longest_paths.paths[1]) = 1]
                         ELSE [panic |-> FALSE, val |-> FALSE]))

\* the k get_exact_k_circular derives from a cycle of c edges
KOfCycle(c) == IF c % 2 = 0 THEN (c \div 2) - 1 ELSE c - 1

\* get_exact_k_circular with cycles.first() in the place of cycles.last(): k derived
\* from the shortest cycle
get_exact_k_circular_shortest(x) ==
    With(CircGraph_new(x),
         LAMBDA graph :
            IF ~graph.ok THEN 0
            ELSE With(all_cycles(graph.g),
                      LAMBDA r : IF ~r[1] THEN U32_MAX
                                 ELSE IF r[2] # <<>> THEN KOfCycle(Len(Head(r[2])))
                                 ELSE U32_MAX))

\* CircCode::get_exact_k_circular
get_exact_k_circular(x) ==
    With(CircGraph_new(x),
         LAMBDA graph :
            IF ~graph.ok THEN 0
            ELSE With(all_cycles(graph.g),
                      LAMBDA r : IF ~r[1] THEN U32_MAX
                                 ELSE IF r[2] # <<>> THEN KOfCycle(Len(Last(r[2])))
                                 ELSE U32_MAX))

RECURSIVE is_cn_circular_loop(_, _, _)
\* the loop "for _i in 1..max" of is_cn_circular from _i = i on, on the clone copy_code:
\* FALSE when the loop returns false
is_cn_circular_loop(copy_code, i, max) ==
    IF i >= max THEN TRUE
    ELSE With(shift(copy_code, 1),
              LAMBDA shifted : IF ~is_circular(shifted) THEN FALSE
                               ELSE is_cn_circular_loop(shifted, i + 1, max))

\* is_cn_circular that returns true after the loop instead of self.is_circular(): the
\* code as given, rotated by nothing, is never examined
is_cn_circular_rotations_only(x) ==
    [self |-> x, val |-> is_cn_circular_loop(x, 1, Last(x.tuple_length))]

\* CircCode::is_cn_circular: the value returned, and self as the call leaves it
is_cn_circular(x) ==
    [self |-> x,
     val |-> IF ~is_cn_circular_loop(x, 1, Last(x.tuple_length)) THEN FALSE
             ELSE is_circular(x)]

----------------------------------------------------------------------------
(* The program: a caller builds a CircCode from an input list, rotates it and
   queries it.  ret is the value the last call returned, until the caller drops it *)

Built == self # NoCode

Idle == Built /\ ret.op = "none"

Init ==
    /\ input \in [kind : {"vec"}, code : InputLists]
                 \cup [kind : {"seq"}, sequence : Sequences, tuple_length : TupleLengths]
                 \cup [kind : {"labels"}, alphabet : Alphabets, label : Labels,
                       other : Labels]
    /\ self = NoCode
    /\ ret = [op |-> "none"]

\* the caller has built nothing and called nothing yet
Fresh == ~Built /\ ret.op = "none"

\* let self = CircCode::new_from_vec(input), the input vector moved into the
\* call; arg is the vector the call was made on
New_from_vec ==
    /\ Fresh
    /\ input.kind = "vec"
    /\ \E r \in {new_from_vec(input.code)} :
          /\ self' = r.cc
          /\ ret' = [op |-> "new_from_vec", err |-> r.err, arg |-> input]
    /\ input' = [kind |-> "moved"]

\* let self = CircCode::new_from_seq(sequence, tuple_length)
New_from_seq ==
    /\ Fresh
    /\ input.kind = "seq"
    /\ \E r \in {new_from_seq(input.sequence, input.tuple_length)} :
          /\ self' = r.cc
          /\ ret' = [op |-> "new_from_seq", err |-> r.err, arg |-> input]
    /\ input' = [kind |-> "moved"]

\* let self = CircCode::from(input) on a vector of words
From_vec ==
    /\ Fresh
    /\ input.kind = "vec"
    /\ \E r \in {from_vec(input.code)} :
          /\ self' = r.cc
          /\ ret' = [op |-> "from", err |-> r.err, arg |-> input]
    /\ input' = [kind |-> "moved"]

\* let self = CircCode::from((sequence, tuple_length))
From_seq ==
    /\ Fresh
    /\ input.kind = "seq"
    /\ \E r \in {from_seq(input.sequence, input.tuple_length)} :
          /\ self' = r.cc
          /\ ret' = [op |-> "from", err |-> r.err, arg |-> input]
    /\ input' = [kind |-> "moved"]

\* let b = self.clone(); self.shift(sh): before is the clone
Shift ==
    /\ Idle
    /\ \E sh \in ShiftAmounts :
          /\ self' = shift(self, sh)
          /\ ret' = [op |-> "shift", sh |-> sh, before |-> self]
    /\ UNCHANGED input

\* self.shift(-sh) right after self.shift(sh), the clone still held
Shift_back ==
    /\ Built
    /\ ret.op = "shift"
    /\ self' = shift(self, -ret.sh)
    /\ ret' = [op |-> "shift_back", sh |-> ret.sh, before |-> ret.before]
    /\ UNCHANGED input

\* self.is_code()
Is_code ==
    /\ Idle
    /\ \E r \in {start_reg_is_code(CodeGraph_new(self), FALSE)} :
          ret' = [op |-> "is_code", val |-> r.ret, obs |-> r.obs]
    /\ UNCHANGED <<input, self>>

\* self.all_ambiguous_sequences()
All_ambiguous_sequences ==
    /\ Idle
    /\ \E r \in {start_reg_is_code(CodeGraph_new(self), TRUE)} :
          ret' = [op |-> "all_ambiguous_sequences", val |-> r.ret, seqs |-> r.all_paths,
                  obs |-> r.obs]
    /\ UNCHANGED <<input, self>>

\* self.is_circular()
Is_circular ==
    /\ Idle
    /\ ret' = [op |-> "is_circular", val |-> is_circular(self)]
    /\ UNCHANGED <<input, self>>

\* self.is_comma_free()
Is_comma_free ==
    /\ Idle
    /\ \E r \in {is_comma_free(self)} :
          ret' = [op |-> "is_comma_free", panic |-> r.panic, val |-> r.val]
    /\ UNCHANGED <<input, self>>

\* self.is_strong_comma_free()
Is_strong_comma_free ==
    /\ Idle
    /\ \E r \in {is_strong_comma_free(self)} :
          ret' = [op |-> "is_strong_comma_free", panic |-> r.panic, val |-> r.val]
    /\ UNCHANGED <<input, self>>

\* self.get_exact_k_circular()
Get_exact_k_circular ==
    /\ Idle
    /\ ret' = [op |-> "get_exact_k_circular", val |-> get_exact_k_circular(self)]
    /\ UNCHANGED <<input, self>>

\* self.is_cn_circular(); arg is the code the call was made on
Is_cn_circular ==
    /\ Idle
    /\ \E r \in {is_cn_circular(self)} :
          /\ self' = r.self
          /\ ret' = [op |-> "is_cn_circular", arg |-> self, val |-> r.val]
    /\ UNCHANGED input

\* CircGraph::new(&self): the graph of the code, or the error
Graph_new ==
    /\ Idle
    /\ \E r \in {CircGraph_new(self)} :
          ret' = [op |-> "CircGraph_new", ok |-> r.ok, err |-> r.err, g |-> r.g]
    /\ UNCHANGED <<input, self>>

\* CircGraph::new(&self).unwrap().all_cycles()
All_cycles ==
    /\ Idle
    /\ \E r \in {all_cycles(GraphOf(self))} :
          ret' = [op |-> "all_cycles", val |-> r[1], cycles |-> r[2]]
    /\ UNCHANGED <<input, self>>

\* CircGraph::new(&self).unwrap().all_longest_paths()
All_longest_paths ==
    /\ Idle
    /\ \E r \in {all_longest_paths(GraphOf(self))} :
          ret' = [op |-> "all_longest_paths", kind |-> r.kind, paths |-> r.paths]
    /\ UNCHANGED <<input, self>>

\* the edges a caller holds: those of the graph, and those of the graph of the
\* code with every split read backwards, which need not be edges of the graph
HeldEdges(g) == Range(g.e) \cup {Edge_new(g.e[i].to, g.e[i].from) : i \in 1..Len(g.e)}

\* the lists of edges handed to subgraph_from_list_of_edges: the empty list,
\* one held edge, the first edge of the graph followed by a held edge, a
\* cycle all_cycles returned, and all returned cycles flattened
EdgeLists(g) ==
    {<<>>}
    \cup {<<e>> : e \in HeldEdges(g)}
    \cup {<<g.e[1], f>> : f \in {h \in HeldEdges(g) : g.e # <<>>}}
    \cup Range(all_cycles(g)[2])
    \cup {Concat(all_cycles(g)[2])}

\* CircGraph::new(&self).unwrap().subgraph_from_list_of_edges(edges)
Subgraph_from_list_of_edges ==
    /\ Idle
    /\ \E edges \in EdgeLists(GraphOf(self)) :
          \E r \in {subgraph_from_list_of_edges(GraphOf(self), edges)} :
             ret' = [op |-> "subgraph_from_list_of_edges", edges |-> edges,
                     err |-> r.err, g |-> r.g]
    /\ UNCHANGED <<input, self>>

\* CircGraph::new(&self).unwrap().component(i)
Component ==
    /\ Idle
    /\ \E i \in 0..(MaxWordLen + 1) :
          \E r \in {component(GraphOf(self), i)} :
             ret' = [op |-> "component", i |-> i, err |-> r.err, g |-> r.g]
    /\ UNCHANGED <<input, self>>

\* what a call of Vertex::new gives in a build with overflow checks (debug) and in one
\* without (release)
Outcome(r, build) ==
    IF build = "debug" /\ r.overflow THEN [kind |-> "panic"]
    ELSE IF r.ok THEN [kind |-> "Ok", v |-> r.v]
    ELSE [kind |-> "NotInAlphabet"]

\* Vertex::new(label, &alphabet) and Vertex::new(other, &alphabet), as in tests::new_edge
Vertex_news ==
    /\ Fresh
    /\ input.kind = "labels"
    /\ \E build \in {"debug", "release"} :
          ret' = [op |-> "Vertex_new", build |-> build, arg |-> input,
                  a |-> Outcome(Vertex_new(input.label, input.alphabet), build),
                  b |-> Outcome(Vertex_new(input.other, input.alphabet), build),
                  overflow |-> \/ Vertex_new(input.label, input.alphabet).overflow
                               \/ Vertex_new(input.other, input.alphabet).overflow]
    /\ input' = [kind |-> "moved"]
    /\ UNCHANGED self

\* the caller is done with the returned value and goes on to its next call
Drop ==
    /\ Built
    /\ ret.op # "none"
    /\ ret' = [op |-> "none"]
    /\ UNCHANGED <<input, self>>

Next ==
    \/ New_from_vec
    \/ New_from_seq
    \/ From_vec
    \/ From_seq
    \/ Shift
    \/ Shift_back
    \/ Is_code
    \/ All_ambiguous_sequences
    \/ Is_circular
    \/ Is_comma_free
    \/ Is_strong_comma_free
    \/ Get_exact_k_circular
    \/ Is_cn_circular
    \/ Graph_new
    \/ All_cycles
    \/ All_longest_paths
    \/ Subgraph_from_list_of_edges
    \/ Component
    \/ Vertex_news
    \/ Drop

Spec == Init /\ [][Next]_vars

----------------------------------------------------------------------------
(* The notions the properties are stated in, defined on words and on the labels
   of the splits, independently of the searches above *)

\* u is a prefix of v and shorter than v
IsProperPrefix(u, v) == Len(u) < Len(v) /\ Take(v, Len(u)) = u

\* the dangling suffixes one Sardinas-Patterson step derives from the suffixes S
DanglingStep(C, S) ==
    {Skip(p[1], Len(p[2])) : p \in {q \in C \X S : IsProperPrefix(q[2], q[1])}}
    \cup {Skip(p[2], Len(p[1])) : p \in {q \in C \X S : IsProperPrefix(q[1], q[2])}}

RECURSIVE DanglingClosure(_, _)
\* every dangling suffix derivable from the suffixes S
DanglingClosure(C, S) ==
    With(S \cup DanglingStep(C, S),
         LAMBDA next : IF next = S THEN S ELSE DanglingClosure(C, next))

\* no symbol sequence has two distinct decompositions into words of the set C
\* (Sardinas-Patterson: no dangling suffix is a word of C)
UniquelyDecodable(C) ==
    DanglingClosure(C, {Skip(p[2], Len(p[1])) :
                           p \in {q \in C \X C : IsProperPrefix(q[1], q[2])}})
       \cap C = {}

RECURSIVE Decompositions(_, _)
\* the decompositions of seq into words of the set C, each a sequence of words
Decompositions(seq, C) ==
    IF seq = <<>> THEN {<<>>}
    ELSE UNION {{<<w>> \o d : d \in Decompositions(Skip(seq, Len(w)), C)} :
                   w \in {u \in C : Len(u) <= Len(seq) /\ Take(seq, Len(u)) = u}}

\* the edges of the split graph of a word list: prefix -> suffix for every split of a word
SplitEdges(code) ==
    UNION {{<<Take(code[i], k), Skip(code[i], k)>> : k \in 1..(Len(code[i]) - 1)} :
              i \in 1..Len(code)}

RECURSIVE ReachableFrom(_, _)
\* the vertices reachable from the set S along edges of E, S included
ReachableFrom(E, S) ==
    With(S \cup {e[2] : e \in {d \in E : d[1] \in S}},
         LAMBDA next : IF next = S THEN S ELSE ReachableFrom(E, next))

\* E has a directed cycle: an edge whose origin is reachable from its target
HasDirectedCycle(E) == \E e \in E : e[1] \in ReachableFrom(E, {e[2]})

RECURSIVE SimplePaths(_, _)
\* the directed paths of E over n pairwise distinct vertices
SimplePaths(E, n) ==
    IF n = 1 THEN {<<e[1]>> : e \in E}
    ELSE {Append(q[1], q[2][2]) :
             q \in {r \in SimplePaths(E, n - 1) \X E :
                       r[2][1] = Last(r[1]) /\ ~Contains(r[1], r[2][2])}}

\* the numbers of edges of the simple directed cycles of E, self-loops included
CycleLengths(E) ==
    {n \in 1..Cardinality(E) :
        \E p \in SimplePaths(E, n) : <<Last(p), p[1]>> \in E}

\* the k a cycle of c edges implies
KImplied(c) == IF c % 2 = 0 THEN (c \div 2) - 1 ELSE c - 1

\* the code with every word rotated left by r positions modulo its own length
Rotated(x, r) ==
    [x EXCEPT !.code = [i \in 1..Len(x.code) |->
                           Skip(x.code[i], r % Len(x.code[i]))
                              \o Take(x.code[i], r % Len(x.code[i]))]]

\* the largest length of a word of the code
LargestWordLength(x) ==
    CHOOSE n \in {Len(x.code[i]) : i \in 1..Len(x.code)} :
        \A i \in 1..Len(x.code) : Len(x.code[i]) <= n

\* no word stands at two positions of the list
NoRepeatedWord(code) == \A i, j \in 1..Len(code) : code[i] = code[j] => i = j

\* the numbers of edges of the cycles all_cycles returns for the graph of x
CycleCounts(x) ==
    With(all_cycles(GraphOf(x))[2], LAMBDA cycles : {Len(cycles[i]) : i \in 1..Len(cycles)})

----------------------------------------------------------------------------
(* Properties *)

\* C1: is_code returns true if and only if no symbol sequence has two distinct
\* decompositions into words of the code.
C1_IsCodeIffUniquelyDecodable ==
    ret.op = "is_code" => (ret.val <=> UniquelyDecodable(Range(self.code)))

\* C2: is_circular is the negation of is_cyclic on the graph built from the code, and
\* is_cyclic is true if and only if the split graph has a directed cycle, a self-loop
\* counting as one.
C2_CircularIffNoDirectedCycle ==
    ret.op = "is_circular" =>
        /\ ret.val = ~is_cyclic(GraphOf(self))
        /\ is_cyclic(GraphOf(self)) <=> HasDirectedCycle(SplitEdges(self.code))

\* a code found not circular because of a cycle through several vertices
C2_CycleWithoutSelfLoopFound ==
    /\ ret.op = "is_circular"
    /\ ~ret.val
    /\ HasDirectedCycle(SplitEdges(self.code))
    /\ \A e \in SplitEdges(self.code) : e[1] # e[2]

\* C3: a code is_circular reports as circular is a code is_code reports as uniquely
\* decodable.  Stated here for the codes without a repeated word, which is all the
\* property needs to fail.
C3_CircularImpliesCode ==
    (ret.op = "is_circular" /\ ret.val /\ NoRepeatedWord(self.code)) => is_code(self)

\* C4: is_strong_comma_free implies is_comma_free, is_comma_free implies is_circular,
\* and each predicate returns a boolean for every code.
C4_CommaFreeChainAndTotal ==
    /\ ret.op = "is_strong_comma_free" =>
          ~ret.panic /\ (ret.val => is_comma_free(self).val)
    /\ ret.op = "is_comma_free" =>
          ~ret.panic /\ (ret.val => is_circular(self))

\* C5: get_exact_k_circular returns the sentinel u32::MAX if and only if is_circular
\* is true.
C5_SentinelIffCircular ==
    ret.op = "get_exact_k_circular" => (ret.val = U32_MAX <=> is_circular(self))

\* the sentinel returned for a circular code
C5_SentinelReturned ==
    ret.op = "get_exact_k_circular" /\ ret.val = U32_MAX /\ is_circular(self)

\* C6: for a code that is not circular, the k get_exact_k_circular returns is never
\* larger than the k implied by any cycle of the split graph: it is the minimum of
\* these values over all cycles.
C6_KIsMinimumOverCycles ==
    (ret.op = "get_exact_k_circular" /\ ~is_circular(self)) =>
        \A c \in CycleLengths(SplitEdges(self.code)) : ret.val <= KImplied(c)

C9_VerdictAgreesAndListNonEmptyIffFalse ==
    ret.op = "all_ambiguous_sequences" =>
        /\ ret.val = is_code(self)
        /\ ret.seqs # <<>> <=> ~ret.val

\* a false verdict returned with several ambiguous sequences
C9_SeveralSequencesReturned ==
    ret.op = "all_ambiguous_sequences" /\ ~ret.val /\ Len(ret.seqs) >= 2

\* C10: every sequence all_ambiguous_sequences returns has at least two distinct
\* decompositions into words of the code.
C10_ReturnedSequencesAreAmbiguous ==
    ret.op = "all_ambiguous_sequences" =>
        \A i \in 1..Len(ret.seqs) :
            Cardinality(Decompositions(ret.seqs[i], Range(self.code))) >= 2

\* the non-empty proper suffixes of the words of a code
ProperSuffixes(code) ==
    UNION {{SubSeq(code[i], k, Len(code[i])) : k \in 2..Len(code[i])} : i \in 1..Len(code)}

\* the non-empty proper prefixes of the words of a code
ProperPrefixes(code) ==
    UNION {{SubSeq(code[i], 1, k) : k \in 1..(Len(code[i]) - 1)} : i \in 1..Len(code)}

\* no proper suffix followed by a proper prefix is a word of the code
NoSuffixPrefixWord(code) ==
    \A s \in ProperSuffixes(code) : \A p \in ProperPrefixes(code) :
        ~Contains(code, s \o p)

\* C11: is_comma_free returns true if and only if no concatenation of a
\* non-empty proper suffix of a word with a non-empty proper prefix of a word
\* is itself a word of the code.
C11_CommaFreeIffNoSuffixPrefixWord ==
    ret.op = "is_comma_free" =>
        ((~ret.panic /\ ret.val) <=> NoSuffixPrefixWord(self.code))

\* C11, where the call returns: the value is true exactly for the codes in
\* which no suffix followed by a prefix is a word
C11_WhereReturned ==
    (ret.op = "is_comma_free" /\ ~ret.panic) =>
        (ret.val <=> NoSuffixPrefixWord(self.code))

\* C12: is_strong_comma_free returns true if and only if no non-empty proper
\* suffix of a word equals a non-empty proper prefix of a word.
C12_StrongCommaFreeIffNoSharedSuffixPrefix ==
    ret.op = "is_strong_comma_free" =>
        ((~ret.panic /\ ret.val) <=>
            (ProperSuffixes(self.code) \cap ProperPrefixes(self.code) = {}))

\* C12, where the call returns
C12_WhereReturned ==
    (ret.op = "is_strong_comma_free" /\ ~ret.panic) =>
        (ret.val <=> (ProperSuffixes(self.code) \cap ProperPrefixes(self.code) = {}))

\* the distinct elements of a list in the order of their first occurrence
RECURSIVE DistinctInOrder(_)
DistinctInOrder(s) ==
    IF s = <<>> THEN <<>>
    ELSE IF Contains(DistinctInOrder(Take(s, Len(s) - 1)), Last(s))
         THEN DistinctInOrder(Take(s, Len(s) - 1))
         ELSE Append(DistinctInOrder(Take(s, Len(s) - 1)), Last(s))

\* C13: for every non-empty list of non-empty words, equal words at any
\* positions, new_from_vec returns a Code whose word list has no duplicates
\* and keeps the distinct words in the order of their first occurrence.
C13_WordsDistinctInFirstOccurrenceOrder ==
    (ret.op = "new_from_vec" /\ ret.err = "Ok") =>
        /\ NoRepeatedWord(self.code)
        /\ self.code = DistinctInOrder(ret.arg.code)

\* C14: new_from_vec returns EmptyCode if and only if the list is empty,
\* EmptyWord if and only if the list is non-empty and holds a word of length
\* zero, and a Code in every other case.
C14_ErrorsOfNewFromVec ==
    ret.op = "new_from_vec" =>
        /\ ret.err \in {"EmptyCode", "EmptyWord", "Ok"}
        /\ ret.err = "EmptyCode" <=> ret.arg.code = <<>>
        /\ ret.err = "EmptyWord" <=>
              (ret.arg.code # <<>> /\ Contains(ret.arg.code, <<>>))
        /\ ret.err = "Ok" <=> Built

\* new_from_vec has returned EmptyWord for a list whose first word is not empty
C14_EmptyWordAfterNonEmptyWord ==
    /\ ret.op = "new_from_vec"
    /\ ret.err = "EmptyWord"
    /\ ret.arg.code[1] # <<>>

\* the consecutive non-overlapping tuples of a sequence, a shorter remainder dropped
TuplesOf(sequence, tuple_length) ==
    [j \in 1..(Len(sequence) \div tuple_length) |->
        SubSeq(sequence, (j - 1) * tuple_length + 1, j * tuple_length)]

\* C15: for a sequence of length n >= tupleLength >= 1, new_from_seq returns a
\* Code whose words are the floor(n / tupleLength) consecutive non-overlapping
\* tuples of the sequence in order, duplicates removed and the remainder
\* dropped, and whose tuple_length is the one-element list [tupleLength].
C15_WordsAreTheDistinctTuples ==
    (/\ ret.op = "new_from_seq"
     /\ ret.arg.tuple_length >= 1
     /\ Len(ret.arg.sequence) >= ret.arg.tuple_length) =>
        /\ ret.err = "Ok"
        /\ self.code = DistinctInOrder(TuplesOf(ret.arg.sequence, ret.arg.tuple_length))
        /\ self.tuple_length = <<ret.arg.tuple_length>>

\* C15 without the removal of duplicates that are not adjacent: the words are
\* the tuples in order with adjacent repeats removed
C15_WordsAreTheTuplesAdjacentRepeatsRemoved ==
    (/\ ret.op = "new_from_seq"
     /\ ret.arg.tuple_length >= 1
     /\ Len(ret.arg.sequence) >= ret.arg.tuple_length) =>
        /\ ret.err = "Ok"
        /\ Range(self.code) = Range(TuplesOf(ret.arg.sequence, ret.arg.tuple_length))
        /\ \A i \in 1..(Len(self.code) - 1) : self.code[i] # self.code[i + 1]
        /\ self.tuple_length = <<ret.arg.tuple_length>>

\* C16: for every sequence and every tuple length, 0 included, new_from_seq
\* returns a Code or EmptyCode and never aborts; it returns EmptyCode exactly
\* when the sequence is empty or shorter than the tuple length.
C16_NewFromSeqNeverAborts ==
    ret.op = "new_from_seq" =>
        /\ ret.err \in {"Ok", "EmptyCode"}
        /\ ret.err = "EmptyCode" <=>
              (\/ ret.arg.sequence = <<>>
               \/ Len(ret.arg.sequence) < ret.arg.tuple_length)

\* C16 for tuple lengths of at least 1
C16_PositiveTupleLength ==
    (ret.op = "new_from_seq" /\ ret.arg.tuple_length >= 1) =>
        /\ ret.err \in {"Ok", "EmptyCode"}
        /\ ret.err = "EmptyCode" <=>
              (\/ ret.arg.sequence = <<>>
               \/ Len(ret.arg.sequence) < ret.arg.tuple_length)

\* the symbols that appear in at least one word of a code
SymbolsOf(code) == UNION {Range(code[i]) : i \in 1..Len(code)}

\* a list of numbers in strictly ascending order: sorted and free of duplicates
StrictlyAscending(s) == \A i \in 1..(Len(s) - 1) : s[i] < s[i + 1]

\* C17: in every Code produced by new_from_vec or new_from_seq, and after any
\* sequence of shift calls on it, the alphabet is the sorted, duplicate-free
\* list of exactly the symbols that appear in at least one word of the code:
\* it is so when the constructor returns, and a shift changes neither the
\* alphabet nor the symbols of the words.
C17_AlphabetIsTheSymbolsOfTheWords ==
    /\ (ret.op \in {"new_from_vec", "new_from_seq"} /\ ret.err = "Ok") =>
          /\ StrictlyAscending(self.alphabet)
          /\ Range(self.alphabet) = SymbolsOf(self.code)
    /\ ret.op \in {"shift", "shift_back"} =>
          /\ self.alphabet = ret.before.alphabet
          /\ SymbolsOf(self.code) = SymbolsOf(ret.before.code)

\* C17 as far as the code goes: the alphabet is sorted and duplicate-free and
\* holds the symbols of the words, for new_from_vec exactly those, for
\* new_from_seq those of the whole sequence; a shift keeps both
C17_AlphabetIsTheSymbolsOfTheInput ==
    /\ (ret.op = "new_from_vec" /\ ret.err = "Ok") =>
          /\ StrictlyAscending(self.alphabet)
          /\ Range(self.alphabet) = SymbolsOf(self.code)
    /\ (ret.op = "new_from_seq" /\ ret.err = "Ok") =>
          /\ StrictlyAscending(self.alphabet)
          /\ Range(self.alphabet) = Range(ret.arg.sequence)
          /\ SymbolsOf(self.code) \subseteq Range(self.alphabet)
    /\ ret.op \in {"shift", "shift_back"} =>
          /\ self.alphabet = ret.before.alphabet
          /\ SymbolsOf(self.code) = SymbolsOf(ret.before.code)

\* the word list is not empty, no word is empty, and tuple_length is the
\* ascending, duplicate-free list of the lengths of the words
WellFormed(x) ==
    /\ x.code # <<>>
    /\ ~Contains(x.code, <<>>)
    /\ StrictlyAscending(x.tuple_length)
    /\ Range(x.tuple_length) = {Len(x.code[i]) : i \in 1..Len(x.code)}

\* C18: in every Code a constructor produced (new_from_vec, new_from_seq, the
\* From conversions with their default fallback), and after any sequence of
\* shift calls, the word list is non-empty, no word is empty, and tuple_length
\* is the ascending, duplicate-free list of the lengths of the words.
C18_CodeIsWellFormed ==
    (\/ Built
     \/ (ret.op \in {"new_from_vec", "new_from_seq", "from"} /\ ret.err = "Ok")) =>
        WellFormed(self)

\* a Code with words of two lengths has been shifted to other words
C18_MixedLengthsShifted ==
    /\ ret.op = "shift"
    /\ Len(self.tuple_length) >= 2
    /\ self.code # ret.before.code

\* C19: shift(s) followed by shift(-s) yields a Code equal to the original,
\* Code equality comparing the word lists without regard to order.
C19_ShiftRoundTrip ==
    ret.op = "shift_back" => eq(self, ret.before)

\* a Code with words of two lengths was shifted by a negative amount to other
\* words and shifted back
C19_ShiftedAwayAndBack ==
    /\ ret.op = "shift_back"
    /\ ret.sh < 0
    /\ Len(self.tuple_length) >= 2
    /\ ~eq(shift(ret.before, ret.sh), ret.before)

\* the offset the rotation of a word of length L starts at: amount modulo L,
\* between 0 and L - 1 for amounts of either sign
Offset(L, amount) == amount % L

\* w[k..] followed by w[..k], symbol by symbol
RotatedWord(w, k) == [j \in 1..Len(w) |-> w[((j - 1 + k) % Len(w)) + 1]]

\* C20: shift(amount) replaces each word w of length L, independently of the
\* other words, by w[k..] followed by w[..k] with k = (L + (amount rem L)) mod L;
\* a multiple of L leaves a word of length L unchanged, and the number and
\* order of the words, every word's length, tuple_length and alphabet are
\* unchanged.
C20_ShiftRotatesEachWord ==
    ret.op = "shift" =>
        /\ Len(self.code) = Len(ret.before.code)
        /\ \A i \in 1..Len(ret.before.code) :
              /\ Len(self.code[i]) = Len(ret.before.code[i])
              /\ self.code[i] = RotatedWord(ret.before.code[i],
                                            Offset(Len(ret.before.code[i]), ret.sh))
              /\ Offset(Len(ret.before.code[i]), ret.sh) = 0 =>
                    self.code[i] = ret.before.code[i]
        /\ self.tuple_length = ret.before.tuple_length
        /\ self.alphabet = ret.before.alphabet

\* a negative amount above the word lengths has rotated a Code with words of
\* two lengths: one word by a multiple of its length, another to a new word
C20_NegativeAmountMixedLengths ==
    /\ ret.op = "shift"
    /\ ret.sh < -MaxWordLen
    /\ \E i, j \in 1..Len(self.code) :
          /\ Len(self.code[i]) # Len(self.code[j])
          /\ Offset(Len(self.code[i]), ret.sh) = 0
          /\ self.code[j] # ret.before.code[j]

\* the labels of the origins of the edges of a path, in order
Origins(path) == [i \in 1..Len(path) |-> path[i].from.label]

\* a non-empty chain of edges of the set E, closed: each edge's target is the
\* next edge's origin and the last edge's target is the first edge's origin
IsClosedChain(path, E) ==
    /\ path # <<>>
    /\ \A i \in 1..Len(path) :
          /\ <<path[i].from.label, path[i].to.label>> \in E
          /\ path[i].to.label = path[(i % Len(path)) + 1].from.label

\* the simple directed cycles of E, each as the sequence of its vertices from
\* every one of its starting points
SimpleCycles(E) ==
    UNION {{p \in SimplePaths(E, n) : <<Last(p), p[1]>> \in E} : n \in 1..Cardinality(E)}

\* q is the cycle p read from another starting point
IsRotation(q, p) ==
    Len(q) = Len(p) /\ \E r \in 0..(Len(p) - 1) : q = RotatedWord(p, r)

\* C21: the list all_cycles returns contains every simple directed cycle of the
\* graph, self-loops included, exactly once, and nothing that is not a closed
\* chain of edges of the graph.
C21_AllCyclesAreTheSimpleCycles ==
    ret.op = "all_cycles" =>
        /\ \A i \in 1..Len(ret.cycles) :
              IsClosedChain(ret.cycles[i], SplitEdges(self.code))
        /\ \A p \in SimpleCycles(SplitEdges(self.code)) :
              Cardinality({i \in 1..Len(ret.cycles) :
                              IsRotation(Origins(ret.cycles[i]), p)}) = 1

\* all_cycles has returned a self-loop and a longer cycle that meets it
C21_SelfLoopAndLongerCycle ==
    /\ ret.op = "all_cycles"
    /\ \E i, j \in 1..Len(ret.cycles) :
          /\ Len(ret.cycles[i]) = 1
          /\ Len(ret.cycles[j]) >= 3
          /\ ret.cycles[i][1].from.label \in Range(Origins(ret.cycles[j]))

\* C28: every cycle all_cycles returns begins at the one of its edges whose
\* origin has the least vertex index of the cycle, the cyclic order of the
\* edges kept, and the list is in non-decreasing order of the number of edges.
C28_CyclesCanonicalAndOrdered ==
    ret.op = "all_cycles" =>
        /\ \A i \in 1..Len(ret.cycles) :
              /\ IsClosedChain(ret.cycles[i], SplitEdges(self.code))
              /\ \A j \in 2..Len(ret.cycles[i]) :
                    ret.cycles[i][1].from.index < ret.cycles[i][j].from.index
        /\ \A i \in 1..(Len(ret.cycles) - 1) :
              Len(ret.cycles[i]) <= Len(ret.cycles[i + 1])

\* all_cycles has returned cycles of different lengths, the longest of at
\* least three edges
C28_ShortAndLongCycle ==
    /\ ret.op = "all_cycles"
    /\ Len(ret.cycles) >= 2
    /\ Len(ret.cycles[1]) < Len(Last(ret.cycles))
    /\ Len(Last(ret.cycles)) >= 3

\* a chain of edges of the set E: each edge's target is the next edge's origin
IsChain(path, E) ==
    /\ path # <<>>
    /\ \A i \in 1..Len(path) : <<path[i].from.label, path[i].to.label>> \in E
    /\ \A i \in 1..(Len(path) - 1) : path[i].to.label = path[i + 1].from.label

RECURSIVE DirectedPaths(_, _)
\* the directed paths of n edges of the acyclic edge set E, each the sequence
\* of its vertices
DirectedPaths(E, n) ==
    IF n = 0 THEN {<<v>> : v \in {e[1] : e \in E} \cup {e[2] : e \in E}}
    ELSE {Append(q[1], q[2][2]) :
             q \in {r \in DirectedPaths(E, n - 1) \X E : r[2][1] = Last(r[1])}}

\* the number of edges of the longest directed path of the acyclic edge set E
LongestPathLength(E) ==
    CHOOSE n \in 0..Cardinality(E) :
        /\ DirectedPaths(E, n) # {}
        /\ DirectedPaths(E, n + 1) = {}

\* the vertices of a path of edges, in order
VerticesOf(path) == Origins(path) \o <<Last(path).to.label>>

\* C22: all_longest_paths returns None if and only if the graph is cyclic; for
\* the acyclic graph of every valid Code, words of any length from 1 on, it
\* returns Some list with at least one path and does not abort.
C22_NoneIffCyclicElseSomePath ==
    ret.op = "all_longest_paths" =>
        /\ ret.kind = "None" <=> HasDirectedCycle(SplitEdges(self.code))
        /\ ~HasDirectedCycle(SplitEdges(self.code)) =>
              (ret.kind = "Some" /\ ret.paths # <<>>)

\* C22 for the graphs that have an edge
C22_WhereTheGraphHasAnEdge ==
    (ret.op = "all_longest_paths" /\ SplitEdges(self.code) # {}) =>
        /\ ret.kind = "None" <=> HasDirectedCycle(SplitEdges(self.code))
        /\ ~HasDirectedCycle(SplitEdges(self.code)) =>
              (ret.kind = "Some" /\ ret.paths # <<>>)

\* C23: for an acyclic graph with at least one edge all_longest_paths returns
\* exactly the directed paths with the greatest number of edges: each returned
\* path is a chain of edges from a vertex without incoming edge, all have the
\* same length, none of that length is missing and none is returned twice.
C23_ExactlyTheLongestPaths ==
    (/\ ret.op = "all_longest_paths"
     /\ SplitEdges(self.code) # {}
     /\ ~HasDirectedCycle(SplitEdges(self.code))) =>
        /\ ret.kind = "Some"
        /\ \A i \in 1..Len(ret.paths) :
              /\ IsChain(ret.paths[i], SplitEdges(self.code))
              /\ ~\E e \in SplitEdges(self.code) : e[2] = ret.paths[i][1].from.label
              /\ Len(ret.paths[i]) = LongestPathLength(SplitEdges(self.code))
        /\ \A p \in DirectedPaths(SplitEdges(self.code),
                                  LongestPathLength(SplitEdges(self.code))) :
              \E i \in 1..Len(ret.paths) : VerticesOf(ret.paths[i]) = p
        /\ \A i, j \in 1..Len(ret.paths) :
              VerticesOf(ret.paths[i]) = VerticesOf(ret.paths[j]) => i = j

\* C23 for the word lists without a repeated word
C23_WhereNoWordIsRepeated ==
    (/\ ret.op = "all_longest_paths"
     /\ NoRepeatedWord(self.code)
     /\ SplitEdges(self.code) # {}
     /\ ~HasDirectedCycle(SplitEdges(self.code))) =>
        /\ ret.kind = "Some"
        /\ \A i \in 1..Len(ret.paths) :
              /\ IsChain(ret.paths[i], SplitEdges(self.code))
              /\ ~\E e \in SplitEdges(self.code) : e[2] = ret.paths[i][1].from.label
              /\ Len(ret.paths[i]) = LongestPathLength(SplitEdges(self.code))
        /\ \A p \in DirectedPaths(SplitEdges(self.code),
                                  LongestPathLength(SplitEdges(self.code))) :
              \E i \in 1..Len(ret.paths) : VerticesOf(ret.paths[i]) = p
        /\ \A i, j \in 1..Len(ret.paths) :
              VerticesOf(ret.paths[i]) = VerticesOf(ret.paths[j]) => i = j

\* the edges of a list as pairs of labels
EdgePairs(edges) == {<<edges[i].from.label, edges[i].to.label>> : i \in 1..Len(edges)}

\* C24: subgraph_from_list_of_edges returns NoSubErr if and only if some given
\* edge is not an edge of the parent graph; otherwise it returns a graph whose
\* edge set is exactly the given edges and whose vertex collection holds
\* exactly the endpoints of those edges, each vertex once.  The parent graph
\* is borrowed immutably and is the graph of self before and after the call.
C24_SubgraphOfGivenEdges ==
    ret.op = "subgraph_from_list_of_edges" =>
        /\ ret.err \in {"Ok", "NoSubErr"}
        /\ ret.err = "NoSubErr" <=>
              ~(EdgePairs(ret.edges) \subseteq SplitEdges(self.code))
        /\ ret.err = "Ok" =>
              /\ EdgePairs(ret.g.e) = EdgePairs(ret.edges)
              /\ {ret.g.v[i].label : i \in 1..Len(ret.g.v)}
                    = {p[1] : p \in EdgePairs(ret.edges)}
                         \cup {p[2] : p \in EdgePairs(ret.edges)}
              /\ \A i, j \in 1..Len(ret.g.v) :
                    ret.g.v[i].label = ret.g.v[j].label => i = j

\* C24 without "each vertex once": the error, the edge set and the set of the
\* vertices are as claimed
C24_UpToRepeatedVertices ==
    ret.op = "subgraph_from_list_of_edges" =>
        /\ ret.err \in {"Ok", "NoSubErr"}
        /\ ret.err = "NoSubErr" <=>
              ~(EdgePairs(ret.edges) \subseteq SplitEdges(self.code))
        /\ ret.err = "Ok" =>
              /\ EdgePairs(ret.g.e) = EdgePairs(ret.edges)
              /\ {ret.g.v[i].label : i \in 1..Len(ret.g.v)}
                    = {p[1] : p \in EdgePairs(ret.edges)}
                         \cup {p[2] : p \in EdgePairs(ret.edges)}

\* the edges of E that have an end whose label is i symbols long
EdgesWithAnEndOfLength(E, i) == {e \in E : Len(e[1]) = i \/ Len(e[2]) = i}

C26_ComponentIsOnePrefixLength ==
    (ret.op = "component" /\ ret.err = "Ok") =>
        \A k \in 1..Len(ret.g.e) :
           /\ Len(ret.g.e[k].from.label) = ret.i
           /\ Contains(self.code, ret.g.e[k].from.label \o ret.g.e[k].to.label)

\* C26 as far as the code goes: every edge of the returned graph is a split of
\* a word into a prefix and the rest, one of the two of length i
C26_ComponentIsOneEndLength ==
    (ret.op = "component" /\ ret.err = "Ok") =>
        \A k \in 1..Len(ret.g.e) :
           /\ Len(ret.g.e[k].from.label) = ret.i \/ Len(ret.g.e[k].to.label) = ret.i
           /\ Contains(self.code, ret.g.e[k].from.label \o ret.g.e[k].to.label)

\* the pairs (word, split point) of the distinct words of the code
WordSplits(code) ==
    {<<w, s>> \in Range(code) \X (1..MaxWordLen) : s < Len(w)}

\* the labels of the vertices a split graph of the code needs
SplitLabels(code) ==
    {p[1] : p \in SplitEdges(code)} \cup {p[2] : p \in SplitEdges(code)}

\* the graph g is the split graph of the code, built as C29 describes it
IsSplitGraphOf(g, code) ==
    /\ EdgePairs(g.e) = SplitEdges(code)
    /\ Len(g.e) = Cardinality(WordSplits(code))
    /\ \A p \in WordSplits(code) :
          Cardinality({i \in 1..Len(g.e) :
                          /\ g.e[i].from.label = Take(p[1], p[2])
                          /\ g.e[i].to.label = Skip(p[1], p[2])
                          /\ g.e[i].label = p[1]}) = 1
    /\ {g.v[i].label : i \in 1..Len(g.v)} = SplitLabels(code)
    /\ Len(g.v) = Cardinality(SplitLabels(code))
    /\ StrictlyAscending([i \in 1..Len(g.v) |-> g.v[i].index])
    /\ \A i \in 1..(Len(g.e) - 1) : g.e[i].from.index <= g.e[i + 1].from.index
    /\ \A i \in 1..Len(g.e) : Contains(g.v, g.e[i].from) /\ Contains(g.v, g.e[i].to)

\* C29: the graph CircGraph::new returns for a Code has exactly one edge from
\* prefix to suffix for each pair of a distinct word and a split point inside
\* it, and no other or repeated edge; the label of an edge is the word it was
\* split from; the vertex list has one vertex for each distinct label, sorted
\* ascending by index; the edge list is sorted ascending by the index of the
\* origin; both ends of every edge are in the vertex list.
C29_GraphIsTheSplitGraph ==
    (ret.op = "CircGraph_new" /\ ret.ok) => IsSplitGraphOf(ret.g, self.code)

\* C29 for the codes that hold no word twice
C29_WhereNoWordIsRepeated ==
    (ret.op = "CircGraph_new" /\ ret.ok /\ NoRepeatedWord(self.code)) =>
        IsSplitGraphOf(ret.g, self.code)

\* CircGraph::new returns a graph for every Code of the model
C29_GraphIsReturned == ret.op = "CircGraph_new" => ret.ok

\* the positions (word index, letter index) of the graph e of a code
Positions(e) ==
    UNION {{<<w, l>> : l \in 0..(Len(e[w + 1]) - 1)} : w \in 0..(Len(e) - 1)}

\* the distinct pairs of positions, the order of the two positions set aside
PositionPairs(e) == {{p, q} : p \in Positions(e), q \in Positions(e)}

\* C27: the search of is_code and of all_ambiguous_sequences ends for every
\* Code; on no branch of the recursion is a pair of positions expanded twice,
\* and the depth of the recursion is at most the number of distinct position
\* pairs of the code.
C27_NoPairExpandedTwice ==
    ret.op \in {"is_code", "all_ambiguous_sequences"} =>
        /\ ~ret.obs.twice
        /\ ret.obs.depth <= Cardinality(PositionPairs(CodeGraph_new(self)))

\* every path was walked, a branch came back to a pair of its history, and
\* some history held four pairs
C27_GuardStopsABranch ==
    /\ ret.op = "all_ambiguous_sequences"
    /\ ret.obs.guard
    /\ ret.obs.depth >= 4

\* the label has a symbol that is not in the alphabet
OffAlphabet(label, alphabet) == \E i \in 1..Len(label) : ~Contains(alphabet, label[i])

\* C30: for any alphabet and any two labels over it, the vertex indices,
\* computed in 32-bit signed arithmetic with the first symbol least
\* significant, are equal if and only if the labels are equal; Vertex::new
\* fails with NotInAlphabet exactly when a symbol of the label is outside the
\* alphabet, and returns a vertex otherwise.
C30_IndexTellsLabelsApart ==
    ret.op = "Vertex_new" =>
        /\ ret.a.kind = (IF OffAlphabet(ret.arg.label, ret.arg.alphabet)
                         THEN "NotInAlphabet" ELSE "Ok")
        /\ ret.b.kind = (IF OffAlphabet(ret.arg.other, ret.arg.alphabet)
                         THEN "NotInAlphabet" ELSE "Ok")
        /\ (ret.a.kind = "Ok" /\ ret.b.kind = "Ok") =>
              (ret.a.v.index = ret.b.v.index <=> ret.arg.label = ret.arg.other)

\* C30 for the calls whose arithmetic stays in the range of i32
C30_WhereNothingOverflows ==
    (ret.op = "Vertex_new" /\ ~ret.overflow) =>
        /\ ret.a.kind = (IF OffAlphabet(ret.arg.label, ret.arg.alphabet)
                         THEN "NotInAlphabet" ELSE "Ok")
        /\ ret.b.kind = (IF OffAlphabet(ret.arg.other, ret.arg.alphabet)
                         THEN "NotInAlphabet" ELSE "Ok")
        /\ (ret.a.kind = "Ok" /\ ret.b.kind = "Ok") =>
              (ret.a.v.index = ret.b.v.index <=> ret.arg.label = ret.arg.other)

RECURSIVE PositionalSum(_, _)
\* the sum over the positions i (from 0) of the 1-based alphabet position of
\* label[i] times (alphabet size + 1)^i, in unbounded integers
PositionalSum(label, alphabet) ==
    IF label = <<>> THEN 0
    ELSE (Position(alphabet, label[1]) + 1)
         + (Len(alphabet) + 1) * PositionalSum(Skip(label, 1), alphabet)

\* where nothing overflows, the index is the positional sum of C30
C30_IndexIsThePositionalSum ==
    (ret.op = "Vertex_new" /\ ~ret.overflow) =>
        /\ ret.a.kind = "Ok" => ret.a.v.index = PositionalSum(ret.arg.label, ret.arg.alphabet)
        /\ ret.b.kind = "Ok" => ret.b.v.index = PositionalSum(ret.arg.other, ret.arg.alphabet)

====
